---- MODULE Spec2Model ----
(***************************************************************************)
(* Asset orchestrator of the assets service: UploadAsset, GetAssetByID and *)
(* DeleteAsset composed over the object store, the metadata repository and *)
(* the cache.  The repository ships two AssetsService implementations:     *)
(*   "assets_service" : src/internal/core/services/assets_service.go       *)
(*   "part_008"       : src/unnamed/part_008 (second file, lines 171-345)  *)
(* impl selects the one that is compiled in; every call is a process whose *)
(* steps are the port calls of the handler, so calls interleave at exactly *)
(* the network calls.                                                      *)
(*                                                                         *)
(* Event consumer (src/internal/adapters/kafka/event_consumer.go): main    *)
(* registers the handlers, starts one fetch loop on the users topic and    *)
(* stops it; the loop fetches, dispatches and commits one message at a     *)
(* time.                                                                   *)
(***************************************************************************)
EXTENDS Integers, Sequences, FiniteSets, TLC

\* ---------------------------------------------------------------- bounds
MaxCalls == 2
MaxActive == 2
MaxTime == 1
MaxLog == 3
MaxFetchErrors == 1

\* ---------------------------------------------------------------- inputs
Nil == "<nil>"
Impls == {"assets_service", "part_008"}
Filenames == {"avatar.png"}
ResourceTypes == {"users"}
ResourceIDs == {"42"}
UserIDs == {Nil, "u1"}
RequestUsers == {"u1", "u2"}
FileDatas == {"x"}
ContentTypes == {"image/png"}
CallIds == 1..MaxActive

VARIABLES impl, now, slugSeq, started, objects, rows, cache, calls

\* the event consumer: the partition it reads, its handler registry, the
\* lifecycle of main, the reader's offsets and the fetch loop
VARIABLES topic, handlers, main, cancelled, loop, position, committed, inflight, outcome, prev, fetchErrors

service == <<impl, now, slugSeq, started, objects, rows, cache, calls>>

consumer == <<topic, handlers, main, cancelled, loop, position, committed, inflight, outcome, prev, fetchErrors>>

\* reply: what the repository answered to the last statement sent to it;
\* published: the avatar-updated events handed to the event publisher
VARIABLES reply, published

others == <<reply, published>>

vars == <<service, consumer, others>>

\* ---------------------------------------------------------------- errors
NoErr == [code |-> "", message |-> "", cause |-> ""]

\* fmt.Errorf: a plain error, not a DomainError
PlainError(message, cause) == [code |-> "error", message |-> message, cause |-> cause]

NewDomainError(code, message, err) ==
    IF err = Nil
    THEN [code |-> code, message |-> message, cause |-> "Asset not found"]
    ELSE [code |-> code, message |-> message, cause |-> err]

\* ---------------------------------------------------------------- helpers
Sha256(data) == "sha256(" \o data \o ")"

UniqueSlug(timestamp, filename) == ToString(timestamp) \o "_" \o filename

\* the pointer tests of the two branches; the second branch dereferences
\* ResourceID when it is nil
FileKeyPanics(dto) ==
    /\ ~(dto.ResourceType # Nil /\ dto.ResourceType # "" /\ dto.ResourceID # Nil /\ dto.ResourceID # "")
    /\ dto.ResourceType # Nil /\ dto.ResourceType # ""
    /\ dto.ResourceID = Nil

\* "fileKey = fmt.Sprintf("%s/%s/%s", ...)" replaced by the slug alone
FileKeyFlat(dto, timestamp) == UniqueSlug(timestamp, dto.Filename)

FileKey(dto, timestamp) ==
    IF dto.ResourceType # Nil /\ dto.ResourceType # "" /\ dto.ResourceID # Nil /\ dto.ResourceID # ""
    THEN dto.ResourceType \o "/" \o dto.ResourceID \o "/" \o UniqueSlug(timestamp, dto.Filename)
    ELSE IF dto.ResourceType # Nil /\ dto.ResourceType # "" /\ dto.ResourceID # Nil
         THEN dto.ResourceType \o "/" \o UniqueSlug(timestamp, dto.Filename)
         ELSE ""

\* CreateAssetDto.GetStoreKey is not among the sources; it follows the
\* key derivation the specification describes, with a strictly increasing
\* disambiguator
GetStoreKey(dto, seq) ==
    IF dto.ResourceType # Nil /\ dto.ResourceType # "" /\ dto.ResourceID # Nil /\ dto.ResourceID # ""
    THEN dto.ResourceType \o "/" \o dto.ResourceID \o "/" \o UniqueSlug(seq, dto.Filename)
    ELSE IF dto.ResourceType # Nil /\ dto.ResourceType # ""
         THEN dto.ResourceType \o "/" \o UniqueSlug(seq, dto.Filename)
         ELSE UniqueSlug(seq, dto.Filename)

\* ---------------------------------------------------------------- state
\* createDto.Metadata, a json.RawMessage: its bytes, whether they are a JSON
\* object, and the fields of that object as key and value entries
NoMetadata == [text |-> "", object |-> FALSE, fields |-> {}]

NoDto == [Filename |-> "", ContentType |-> "", ResourceType |-> Nil, ResourceID |-> Nil, UserID |-> Nil, Data |-> "",
          Metadata |-> NoMetadata]
\* a row: updated_at is kept as the statement that last wrote it
NoAsset == [ID |-> 0, StorageKey |-> "", UserID |-> Nil, FileHash |-> "", Active |-> FALSE, Deleted |-> FALSE,
            PublicURL |-> "", UpdatedAt |-> "", Metadata |-> {}]

\* trigger_set_public_url, BEFORE INSERT OR UPDATE
SetPublicUrl(row) == [row EXCEPT !.PublicURL = "/assets/" \o ToString(row.ID)]

NoUpdate == [ID |-> 0, UserID |-> Nil, PublicURL |-> Nil, FileHash |-> ""]

IdleCall == [op |-> "none", pc |-> "idle", dto |-> NoDto, n |-> 0, assetID |-> 0, userID |-> "",
             key |-> "", asset |-> NoAsset, page |-> <<>>, total |-> 0,
             ret |-> "", err |-> NoErr, trace |-> <<>>]

NoReply == [op |-> "none", id |-> 0, userID |-> Nil, limit |-> 0, offset |-> 0, dto |-> NoUpdate,
            err |-> "", page |-> <<>>, total |-> 0]

\* object store and cache contents: one entry per key
Put(entries, k, v) == {e \in entries : e.key # k} \cup {[key |-> k, val |-> v]}
Remove(entries, k) == {e \in entries : e.key # k}
Has(entries, k) == \E e \in entries : e.key = k
Lookup(entries, k) == (CHOOSE e \in entries : e.key = k).val

Did(trace, port, ok) == Append(trace, [port |-> port, ok |-> ok])

\* time.Now().Unix(): the clock never runs backwards, so a call reads the
\* second the previous reader saw or a later one; only assets_service.go
\* reads it
Timestamps == IF impl = "assets_service" THEN now..MaxTime ELSE {now}

Dtos ==
    [Filename : Filenames, ContentType : ContentTypes, ResourceType : ResourceTypes,
     ResourceID : ResourceIDs, UserID : UserIDs, Data : FileDatas, Metadata : {NoMetadata}]

\* every shape of request the handlers can pass in: empty strings, empty
\* payload or other bytes, resource association absent (nil), empty or set
AnyDtos ==
    [Filename : Filenames \cup {""}, ContentType : ContentTypes \cup {""},
     ResourceType : ResourceTypes \cup {Nil, ""}, ResourceID : ResourceIDs \cup {Nil, ""},
     UserID : UserIDs, Data : FileDatas \cup {"", "y"}, Metadata : {NoMetadata}]

\* the metadata a caller can send: none, bytes that are not a JSON object, or
\* an object with any of these keys
MetadataKeys == {"file_hash", "storage_key", "note"}

RawMetadatas ==
    {NoMetadata, [text |-> "not json", object |-> FALSE, fields |-> {}]}
        \cup {[text |-> "json", object |-> TRUE, fields |-> {[key |-> k, val |-> "caller"] : k \in ks}] :
                ks \in SUBSET MetadataKeys}

MetadataDtos ==
    [Filename : Filenames, ContentType : ContentTypes, ResourceType : ResourceTypes,
     ResourceID : ResourceIDs, UserID : UserIDs, Data : FileDatas \cup {"y"}, Metadata : RawMetadatas]

\* a slot is free once its call has returned; a new call, the n-th one made,
\* takes the lowest free slot, and at most MaxCalls calls are made
Free(c) == calls[c].pc \in {"idle", "done"}

CanStart(c) ==
    /\ started < MaxCalls
    /\ Free(c)
    /\ \A d \in CallIds : d < c => ~Free(d)

\* ------------------------------------------------------------ UploadAsset
UploadKey(dto, timestamp) ==
    IF impl = "part_008" THEN GetStoreKey(dto, slugSeq) ELSE FileKey(dto, timestamp)

UploadFileError ==
    IF impl = "part_008"
    THEN NewDomainError("unable_to_marshal_error", "failed to upload file to storag", "unable_to_upload_error")
    ELSE PlainError("failed to upload file to storage", "unable_to_upload_error")

\* "if err != nil { return ... }" after storageService.UploadFile
AfterUploadFileContinue(ok) == "create"

AfterUploadFile(ok) == IF ok THEN "create" ELSE "done"

\* key derivation, then storageService.UploadFile
UploadPutOf(c, dtos) ==
    /\ CanStart(c)
    /\ \E dto \in dtos, timestamp \in Timestamps, ok \in BOOLEAN :
         /\ ~(impl = "assets_service" /\ FileKeyPanics(dto))
         /\ now' = timestamp
         /\ objects' = IF ok THEN Put(objects, UploadKey(dto, timestamp), dto.Data) ELSE objects
         /\ calls' = [calls EXCEPT ![c] =
              [IdleCall EXCEPT !.op = "UploadAsset", !.n = started + 1, !.dto = dto, !.key = UploadKey(dto, timestamp),
                        !.pc = AfterUploadFile(ok),
                        !.ret = IF ok THEN "" ELSE "error",
                        !.err = IF ok THEN NoErr ELSE UploadFileError,
                        !.trace = Did(@, "storage.UploadFile", ok)]]
    /\ started' = started + 1
    /\ slugSeq' = IF impl = "part_008" THEN slugSeq + 1 ELSE slugSeq
    /\ UNCHANGED <<consumer, others, impl, rows, cache>>

UploadPut(c) == UploadPutOf(c, Dtos)

\* the first call made on the service, with any request
UploadPutAny(c) == started = 0 /\ UploadPutOf(c, AnyDtos)

UploadPutWithMetadata(c) == started = 0 /\ UploadPutOf(c, MetadataDtos)

\* assets_service.go evaluates "*createDto.ResourceID" on a nil pointer in its
\* second branch: the call panics before any port is called and never returns
UploadPanicOf(c, dtos) ==
    /\ CanStart(c)
    /\ impl = "assets_service"
    /\ \E dto \in dtos :
         /\ FileKeyPanics(dto)
         /\ calls' = [calls EXCEPT ![c] =
              [IdleCall EXCEPT !.op = "UploadAsset", !.n = started + 1, !.dto = dto,
                        !.pc = "panicked", !.ret = "panic"]]
    /\ started' = started + 1
    /\ UNCHANGED <<consumer, others, impl, now, slugSeq, objects, rows, cache>>

UploadPanicAny(c) == started = 0 /\ UploadPanicOf(c, AnyDtos)

\* the system fields of the metadata document; upload_timestamp holds a
\* reading of the clock that nothing reads back, kept here without its value
SystemMetadata(fileHash, fileKey) ==
    {[key |-> "file_hash", val |-> fileHash],
     [key |-> "upload_timestamp", val |-> "time.Now().Unix()"],
     [key |-> "storage_key", val |-> fileKey]}

\* "for k, v := range customMetadata { metadata[k] = v }"
Merged(metadata, customMetadata) ==
    {e \in metadata : ~Has(customMetadata, e.key)} \cup customMetadata

\* the metadata map of assets_service.go: the system fields, then the
\* caller's when createDto.Metadata is not empty and unmarshals into a map
Metadata(dto, fileHash, fileKey) ==
    IF dto.Metadata.text # "" /\ dto.Metadata.object
    THEN Merged(SystemMetadata(fileHash, fileKey), dto.Metadata.fields)
    ELSE SystemMetadata(fileHash, fileKey)

\* CreateAssetDto.GetMetadata is not among the sources; the requests made of
\* part_008 carry no metadata of their own, and the document is then the
\* system fields
GetMetadata(dto, fileKey, fileHash) == SystemMetadata(fileHash, fileKey)

\* the row the INSERT ... RETURNING yields
CreatedAsset(id, call) ==
    SetPublicUrl([ID |-> id, StorageKey |-> call.key, UserID |-> call.dto.UserID,
                  FileHash |-> Sha256(call.dto.Data), Active |-> TRUE, Deleted |-> FALSE,
                  PublicURL |-> "", UpdatedAt |-> "insert",
                  Metadata |-> IF impl = "part_008"
                               THEN GetMetadata(call.dto, call.key, Sha256(call.dto.Data))
                               ELSE Metadata(call.dto, Sha256(call.dto.Data), call.key)])

\* assetsRepo.CreateAsset
UploadCreate(c) ==
    /\ calls[c].op = "UploadAsset"
    /\ calls[c].pc = "create"
    /\ \E ok \in BOOLEAN :
         /\ rows' = IF ok THEN Append(rows, CreatedAsset(Len(rows) + 1, calls[c])) ELSE rows
         /\ calls' = [calls EXCEPT ![c] =
              [@ EXCEPT !.pc = IF ok THEN "cache" ELSE "rollback",
                        !.asset = IF ok THEN CreatedAsset(Len(rows) + 1, calls[c]) ELSE @,
                        !.trace = Did(@, "repo.CreateAsset", ok)]]
    /\ UNCHANGED <<consumer, others, impl, now, slugSeq, started, objects, cache>>

\* the object store after the rollback's storageService.DeleteFile(fileKey)
RollbackObjectsKept(objs, key, ok) == objs

RollbackObjects(objs, key, ok) == IF ok THEN Remove(objs, key) ELSE objs

SaveMetadataError ==
    NewDomainError("unable_to_marshal_error", "Failed to save asset metadata", "failed to create asset")

\* Rollback: storageService.DeleteFile, then return the create error
UploadRollback(c) ==
    /\ calls[c].op = "UploadAsset"
    /\ calls[c].pc = "rollback"
    /\ \E ok \in BOOLEAN :
         /\ objects' = RollbackObjects(objects, calls[c].key, ok)
         /\ calls' = [calls EXCEPT ![c] =
              [@ EXCEPT !.pc = "done", !.ret = "error",
                        !.err = SaveMetadataError,
                        !.trace = Did(@, "storage.DeleteFile", ok)]]
    /\ UNCHANGED <<consumer, others, impl, now, slugSeq, started, rows, cache>>

\* assets_service.go keys the entry by the uuid.New() of the call, which is
\* not the id the database assigns; part_008 keys it by the persisted id
UploadCacheKey(call) ==
    IF impl = "part_008"
    THEN "assets:" \o ToString(call.asset.ID)
    ELSE "asset:" \o "uuid-" \o ToString(call.n)

\* "if err := s.cacheService.Set(...); err != nil { log }": the result of the
\* call after the cache set, whatever the cache answered
CacheSetResultPropagated(ok) == IF ok THEN "ok" ELSE "error"

CacheSetResult(ok) == "ok"

\* cacheService.Set, then return the saved asset
UploadCache(c) ==
    /\ calls[c].op = "UploadAsset"
    /\ calls[c].pc = "cache"
    /\ \E ok \in BOOLEAN :
         /\ cache' = IF ok THEN Put(cache, UploadCacheKey(calls[c]), calls[c].asset) ELSE cache
         /\ calls' = [calls EXCEPT ![c] =
              [@ EXCEPT !.pc = "done", !.ret = CacheSetResult(ok), !.trace = Did(@, "cache.Set", ok)]]
    /\ UNCHANGED <<consumer, others, impl, now, slugSeq, started, objects, rows>>

\* ------------------------------------------------------------- repository
\* the row after "SET deleted_at = NOW(), updated_at = NOW()" and the
\* triggers that run before every update
SoftDeletedAndStripped(row) ==
    SetPublicUrl([row EXCEPT !.Deleted = TRUE, !.UpdatedAt = "delete", !.StorageKey = "", !.FileHash = ""])

SoftDeleted(row) == SetPublicUrl([row EXCEPT !.Deleted = TRUE, !.UpdatedAt = "delete"])

\* WHERE id = $1, without the conditions on active and deleted_at
VisibleWhateverState(id) == id \in 1..Len(rows)

\* WHERE id = $1 AND active = true AND deleted_at IS NULL
Visible(id) == id \in 1..Len(rows) /\ rows[id].Active /\ ~rows[id].Deleted

\* ------------------------------------------------------------ GetAssetByID
GetCacheKey(id) ==
    IF impl = "part_008" THEN "assets:" \o ToString(id) ELSE ToString(id)

\* "if err == nil { return asset, nil }" after cacheService.Get
AfterCacheGetAlwaysRepo(hit) == "repo"

AfterCacheGet(hit) == IF hit THEN "done" ELSE "repo"

\* cacheService.Get: a hit returns at once, a miss or an error goes on
GetCache(c) ==
    /\ CanStart(c)
    /\ \E id \in 1..(Len(rows) + 1), ok \in BOOLEAN :
         LET hit == ok /\ Has(cache, GetCacheKey(id)) IN
         calls' = [calls EXCEPT ![c] =
              [IdleCall EXCEPT !.op = "GetAssetByID", !.n = started + 1, !.assetID = id,
                        !.pc = AfterCacheGet(hit),
                        !.ret = IF hit THEN "ok" ELSE "",
                        !.asset = IF hit THEN Lookup(cache, GetCacheKey(id)) ELSE NoAsset,
                        !.trace = Did(@, "cache.Get", hit)]]
    /\ started' = started + 1
    /\ UNCHANGED <<consumer, others, impl, now, slugSeq, objects, rows, cache>>

\* assetsRepo.GetAssetByID
GetRepo(c) ==
    /\ calls[c].op = "GetAssetByID"
    /\ calls[c].pc = "repo"
    /\ \E ok \in BOOLEAN :
         LET found == ok /\ Visible(calls[c].assetID) IN
         calls' = [calls EXCEPT ![c] =
              [@ EXCEPT !.pc = IF found /\ impl = "part_008" THEN "writeback" ELSE "done",
                        !.ret = IF found THEN (IF impl = "part_008" THEN "" ELSE "ok") ELSE "error",
                        !.asset = IF found THEN rows[calls[c].assetID] ELSE NoAsset,
                        !.err = IF found THEN NoErr
                                ELSE NewDomainError("resource_not_found_error", "Asset not found",
                                                    IF ok THEN "asset not found" ELSE "failed to get asset"),
                        !.trace = Did(@, "repo.GetAssetByID", found)]]
    /\ UNCHANGED <<consumer, others, impl, now, slugSeq, started, objects, rows, cache>>

\* cacheService.Set of the row just read, then return it
GetWriteback(c) ==
    /\ calls[c].op = "GetAssetByID"
    /\ calls[c].pc = "writeback"
    /\ \E ok \in BOOLEAN :
         /\ cache' = IF ok THEN Put(cache, GetCacheKey(calls[c].assetID), calls[c].asset) ELSE cache
         /\ calls' = [calls EXCEPT ![c] =
              [@ EXCEPT !.pc = "done", !.ret = CacheSetResult(ok), !.trace = Did(@, "cache.Set", ok)]]
    /\ UNCHANGED <<consumer, others, impl, now, slugSeq, started, objects, rows>>

\* ------------------------------------------------------------- DeleteAsset
\* asset.UserID != nil && *asset.UserID != userID
NotOwnerIgnored(asset, userID) == FALSE

NotOwner(asset, userID) == asset.UserID # Nil /\ asset.UserID # userID

\* "asset, err := s.assetsRepo.GetAssetByID(ctx, assetID); if err != nil {
\* return ... }": the call goes on only with a row the repository returned
FoundAnyRow(id, ok) == ok /\ id \in 1..Len(rows)

Found(id, ok) == ok /\ Visible(id)

\* assetsRepo.GetAssetByID and the ownership check
DeleteLoad(c) ==
    /\ CanStart(c)
    /\ \E id \in 1..(Len(rows) + 1), userID \in RequestUsers, ok \in BOOLEAN :
         LET found == Found(id, ok)
             denied == found /\ NotOwner(rows[id], userID)
         IN
         calls' = [calls EXCEPT ![c] =
              [IdleCall EXCEPT !.op = "DeleteAsset", !.n = started + 1, !.assetID = id, !.userID = userID,
                        !.pc = IF found /\ ~denied
                               THEN (IF impl = "part_008" THEN "storage" ELSE "repo")
                               ELSE "done",
                        !.ret = IF found /\ ~denied THEN "" ELSE "error",
                        !.asset = IF found THEN rows[id] ELSE NoAsset,
                        !.err = IF ~found
                                THEN NewDomainError("resource_not_found_error", "Asset not found",
                                                    IF ok THEN "asset not found" ELSE "failed to get asset")
                                ELSE IF denied
                                     THEN NewDomainError("unauthorized_error", "Asset does not belong to user", Nil)
                                     ELSE NoErr,
                        !.trace = Did(@, "repo.GetAssetByID", found)]]
    /\ started' = started + 1
    /\ UNCHANGED <<consumer, others, impl, now, slugSeq, objects, rows, cache>>

\* "if err != nil { return ... }" after storageService.DeleteFile
AfterDeleteFileContinue(ok) == "cache"

AfterDeleteFile(ok) == IF ok THEN "cache" ELSE "done"

DeleteFileError ==
    NewDomainError("unable_to_delete_error", "Failed to delete file from storage", "unable_to_delete_error")

\* storageService.DeleteFile(*asset.StorageKey), part_008 only
DeleteStorage(c) ==
    /\ calls[c].op = "DeleteAsset"
    /\ calls[c].pc = "storage"
    /\ \E ok \in BOOLEAN :
         /\ objects' = IF ok THEN Remove(objects, calls[c].asset.StorageKey) ELSE objects
         /\ calls' = [calls EXCEPT ![c] =
              [@ EXCEPT !.pc = AfterDeleteFile(ok),
                        !.ret = IF ok THEN "" ELSE "error",
                        !.err = IF ok THEN NoErr ELSE DeleteFileError,
                        !.trace = Did(@, "storage.DeleteFile", ok)]]
    /\ UNCHANGED <<consumer, others, impl, now, slugSeq, started, rows, cache>>

\* cacheService.Delete, part_008 only; a failure is only logged
DeleteCache(c) ==
    /\ calls[c].op = "DeleteAsset"
    /\ calls[c].pc = "cache"
    /\ \E ok \in BOOLEAN :
         /\ cache' = IF ok THEN Remove(cache, "assets:" \o ToString(calls[c].assetID)) ELSE cache
         /\ calls' = [calls EXCEPT ![c] =
              [@ EXCEPT !.pc = "repo", !.trace = Did(@, "cache.Delete", ok)]]
    /\ UNCHANGED <<consumer, others, impl, now, slugSeq, started, objects, rows>>

\* assetsRepo.DeleteAsset: the UPDATE touches the row only while it is
\* visible, and zero affected rows is an error
DeleteRepo(c) ==
    /\ calls[c].op = "DeleteAsset"
    /\ calls[c].pc = "repo"
    /\ \E ok \in BOOLEAN :
         LET done == ok /\ Visible(calls[c].assetID) IN
         /\ rows' = IF done THEN [rows EXCEPT ![calls[c].assetID] = SoftDeleted(@)] ELSE rows
         /\ calls' = [calls EXCEPT ![c] =
              [@ EXCEPT !.pc = "done",
                        !.ret = IF done THEN "ok" ELSE "error",
                        !.err = IF done THEN NoErr
                                ELSE NewDomainError("unable_to_delete_error", "Failed to delete asset",
                                                    IF ok THEN "asset not found" ELSE "failed to delete asset"),
                        !.trace = Did(@, "repo.DeleteAsset", done)]]
    /\ UNCHANGED <<consumer, others, impl, now, slugSeq, started, objects, cache>>

\* ---------------------------------------------------- event consumer state
EventTypes == {"user_created", "log_activity"}

\* a message of the topic: a body that json.Unmarshal rejects, or an
\* envelope of some event type
Messages == {[valid |-> FALSE, type |-> ""]} \cup [valid : {TRUE}, type : EventTypes]

Topics == UNION {[1..n -> Messages] : n \in 1..MaxLog}

NoLoop == [pc |-> "none", offset |-> 0, err |-> FALSE, call |-> 0]
NoPrev == [offset |-> 0, result |-> "none"]

\* NewEventConsumer: one reader on the users topic in a consumer group, no
\* handler registered, nothing fetched or committed yet
ConsumerNew(t) ==
    /\ topic = t
    /\ handlers = {}
    /\ main = "new"
    /\ cancelled = FALSE
    /\ loop = NoLoop
    /\ position = 1
    /\ committed = 1
    /\ inflight = 0
    /\ outcome = [o \in 1..Len(t) |-> "none"]
    /\ prev = NoPrev
    /\ fetchErrors = 0

\* ------------------------------------------------------------------- Init
\* The stores outlive the service: at construction they are empty, or hold
\* the asset an earlier UploadAsset of the same build left there (uploaded
\* at second 0, with or without an owner, its cache entry kept or lost).
SeedCall(userID) ==
    LET dto == [Filename |-> "avatar.png", ContentType |-> "image/png", ResourceType |-> "users",
                ResourceID |-> "42", UserID |-> userID, Data |-> "x", Metadata |-> NoMetadata]
        put == [IdleCall EXCEPT !.op = "UploadAsset", !.dto = dto,
                                !.key = IF impl = "part_008" THEN GetStoreKey(dto, 0) ELSE FileKey(dto, 0)]
    IN [put EXCEPT !.asset = CreatedAsset(1, put)]

Init ==
    /\ ConsumerNew(<<>>)
    /\ reply = NoReply
    /\ published = <<>>
    /\ impl \in Impls
    /\ now = 0
    /\ started = 0
    /\ calls = [c \in CallIds |-> IdleCall]
    /\ \E seeded \in BOOLEAN, userID \in UserIDs, cached \in BOOLEAN :
         IF seeded
         THEN /\ slugSeq = IF impl = "part_008" THEN 1 ELSE 0
              /\ objects = {[key |-> SeedCall(userID).key, val |-> SeedCall(userID).dto.Data]}
              /\ rows = <<SeedCall(userID).asset>>
              /\ cache = IF cached
                         THEN {[key |-> UploadCacheKey(SeedCall(userID)), val |-> SeedCall(userID).asset]}
                         ELSE {}
         ELSE /\ slugSeq = 0
              /\ objects = {}
              /\ rows = <<>>
              /\ cache = {}

Next ==
    \/ \E c \in CallIds : UploadPut(c)
    \/ \E c \in CallIds : UploadCreate(c)
    \/ \E c \in CallIds : UploadRollback(c)
    \/ \E c \in CallIds : UploadCache(c)
    \/ \E c \in CallIds : GetCache(c)
    \/ \E c \in CallIds : GetRepo(c)
    \/ \E c \in CallIds : GetWriteback(c)
    \/ \E c \in CallIds : DeleteLoad(c)
    \/ \E c \in CallIds : DeleteStorage(c)
    \/ \E c \in CallIds : DeleteCache(c)
    \/ \E c \in CallIds : DeleteRepo(c)

Spec == Init /\ [][Next]_vars

\* UploadAsset calls only, in any interleaving
NextUploads ==
    \/ \E c \in CallIds : UploadPut(c)
    \/ \E c \in CallIds : UploadCreate(c)
    \/ \E c \in CallIds : UploadRollback(c)
    \/ \E c \in CallIds : UploadCache(c)

SpecUploads == Init /\ [][NextUploads]_vars

\* one UploadAsset call with any request
NextAnyInput ==
    \/ \E c \in CallIds : UploadPutAny(c)
    \/ \E c \in CallIds : UploadPanicAny(c)
    \/ \E c \in CallIds : UploadCreate(c)
    \/ \E c \in CallIds : UploadRollback(c)
    \/ \E c \in CallIds : UploadCache(c)

SpecAnyInput == Init /\ [][NextAnyInput]_vars

\* one UploadAsset call of assets_service.go with a request that carries
\* metadata
InitMetadata == Init /\ impl = "assets_service"

NextMetadata ==
    \/ \E c \in CallIds : UploadPutWithMetadata(c)
    \/ \E c \in CallIds : UploadCreate(c)
    \/ \E c \in CallIds : UploadRollback(c)
    \/ \E c \in CallIds : UploadCache(c)

SpecMetadata == InitMetadata /\ [][NextMetadata]_vars

\* ---------------------------------------------------------- event consumer
\* EventHandlers.RegisterHandlers, called by main before Start
RegisterHandlers ==
    /\ main = "new"
    /\ handlers' = handlers \cup {"user_created"}
    /\ main' = "registered"
    /\ UNCHANGED <<service, others, topic, cancelled, loop, position, committed, inflight, outcome, prev, fetchErrors>>

\* main calls eventConsumer.Start after eventHandlers.RegisterHandlers returned
MayStartEarly == main \in {"new", "registered"}

MayStart == main = "registered"

\* Start: context.WithCancel, then one consumeMessages goroutine per reader
Start ==
    /\ MayStart
    /\ main' = "started"
    /\ cancelled' = FALSE
    /\ loop' = [NoLoop EXCEPT !.pc = "select"]
    /\ UNCHANGED <<service, others, topic, handlers, position, committed, inflight, outcome, prev, fetchErrors>>

\* select { case <-c.ctx.Done(): return; default: ... }
LoopSelect ==
    /\ loop.pc = "select"
    /\ loop' = [NoLoop EXCEPT !.pc = IF cancelled THEN "exited" ELSE "fetch"]
    /\ UNCHANGED <<service, others, topic, handlers, main, cancelled, position, committed, inflight, outcome, prev, fetchErrors>>

\* reader.FetchMessage returns the next message of the partition: the reader
\* hands out the message at its position and moves on, whether or not the
\* earlier ones were committed; nothing in the loop rewinds the reader
FetchMessage ==
    /\ loop.pc = "fetch"
    /\ position <= Len(topic)
    /\ loop' = [NoLoop EXCEPT !.pc = "handle", !.offset = position]
    /\ position' = position + 1
    /\ UNCHANGED <<service, others, topic, handlers, main, cancelled, committed, inflight, outcome, prev, fetchErrors>>

\* reader.FetchMessage(c.ctx) gives up when c.ctx is cancelled
FetchUninterruptible == FALSE

FetchInterrupted == cancelled

\* reader.FetchMessage returns context.Canceled: the loop returns
FetchCancelled ==
    /\ loop.pc = "fetch"
    /\ FetchInterrupted
    /\ loop' = [NoLoop EXCEPT !.pc = "exited"]
    /\ UNCHANGED <<service, others, topic, handlers, main, cancelled, position, committed, inflight, outcome, prev, fetchErrors>>

\* reader.FetchMessage returns another error: log, sleep a second, continue
FetchError ==
    /\ loop.pc = "fetch"
    /\ fetchErrors < MaxFetchErrors
    /\ fetchErrors' = fetchErrors + 1
    /\ loop' = [NoLoop EXCEPT !.pc = "sleep"]
    /\ UNCHANGED <<service, others, topic, handlers, main, cancelled, position, committed, inflight, outcome, prev>>

Sleep ==
    /\ loop.pc = "sleep"
    /\ loop' = [NoLoop EXCEPT !.pc = "select"]
    /\ UNCHANGED <<service, others, topic, handlers, main, cancelled, position, committed, inflight, outcome, prev, fetchErrors>>

\* "if err := c.handleMessage(message); err != nil { log } else { commit }"
AfterHandleMessageCommits(err) == "commit"

AfterHandleMessage(err) == IF err THEN "select" ELSE "commit"

\* handler.Handle is a synchronous call: the loop waits for its return
AfterInvokeDetached == "select"

AfterInvoke == "handler"

\* "handler, exists := c.handlers[domainEvent.Type]"
ExistsAlways(type) == TRUE

Exists(type) == type \in handlers

\* handleMessage up to the handler call: json.Unmarshal, registry lookup
HandleMessage ==
    /\ loop.pc = "handle"
    /\ LET m == topic[loop.offset]
           result == IF ~m.valid THEN "bad_body"
                     ELSE IF ~Exists(m.type) THEN "no_handler" ELSE "invoke"
       IN
       /\ loop' = [loop EXCEPT !.pc = IF result = "invoke" THEN AfterInvoke
                                      ELSE AfterHandleMessage(result = "bad_body"),
                               !.err = (result = "bad_body")]
       /\ inflight' = IF result = "invoke" THEN inflight + 1 ELSE inflight
       /\ outcome' = IF result = "invoke" THEN outcome ELSE [outcome EXCEPT ![loop.offset] = result]
       /\ prev' = IF result = "invoke" THEN prev ELSE [offset |-> loop.offset, result |-> result]
    /\ UNCHANGED <<service, others, topic, handlers, main, cancelled, position, committed, fetchErrors>>

\* handler.Handle returns nil or an error; handleMessage returns it wrapped
HandlerReturn ==
    /\ loop.pc = "handler"
    /\ inflight > 0
    /\ \E ok \in BOOLEAN :
         LET result == IF ok THEN "ok" ELSE "handler_error" IN
         /\ loop' = [loop EXCEPT !.pc = AfterHandleMessage(~ok), !.err = ~ok]
         /\ outcome' = [outcome EXCEPT ![loop.offset] = result]
         /\ prev' = [offset |-> loop.offset, result |-> result]
    /\ inflight' = inflight - 1
    /\ UNCHANGED <<service, others, topic, handlers, main, cancelled, position, committed, fetchErrors>>

\* reader.CommitMessages(c.ctx, message): a success moves the group's offset
\* past the message, a failure is only logged
CommitMessages ==
    /\ loop.pc = "commit"
    /\ \E ok \in BOOLEAN :
         committed' = IF ok THEN loop.offset + 1 ELSE committed
    /\ loop' = [NoLoop EXCEPT !.pc = "select"]
    /\ UNCHANGED <<service, others, topic, handlers, main, cancelled, position, inflight, outcome, prev, fetchErrors>>

\* Stop: c.cancel()
StopCancel ==
    /\ main = "started"
    /\ main' = "stopping"
    /\ cancelled' = TRUE
    /\ UNCHANGED <<service, others, topic, handlers, loop, position, committed, inflight, outcome, prev, fetchErrors>>

\* "c.wg.Wait()": every consumeMessages goroutine has run its deferred wg.Done
WaitedAtOnce == TRUE

Waited == loop.pc = "exited"

\* Stop: c.wg.Wait() returns
StopWait ==
    /\ main = "stopping"
    /\ Waited
    /\ main' = "closing"
    /\ UNCHANGED <<service, others, topic, handlers, cancelled, loop, position, committed, inflight, outcome, prev, fetchErrors>>

\* Stop: reader.Close() for each reader (an error is only logged), return nil
StopClose ==
    /\ main = "closing"
    /\ main' = "stopped"
    /\ UNCHANGED <<service, others, topic, handlers, cancelled, loop, position, committed, inflight, outcome, prev, fetchErrors>>

\* the consumer alone: the service is idle and its stores are empty
InitConsumer ==
    /\ impl = "part_008"
    /\ now = 0
    /\ slugSeq = 0
    /\ started = 0
    /\ objects = {}
    /\ rows = <<>>
    /\ cache = {}
    /\ calls = [c \in CallIds |-> IdleCall]
    /\ reply = NoReply
    /\ published = <<>>
    /\ \E t \in Topics : ConsumerNew(t)

NextConsumer ==
    \/ RegisterHandlers
    \/ Start
    \/ LoopSelect
    \/ FetchMessage
    \/ FetchCancelled
    \/ FetchError
    \/ Sleep
    \/ HandleMessage
    \/ HandlerReturn
    \/ CommitMessages
    \/ StopCancel
    \/ StopWait
    \/ StopClose

SpecConsumer == InitConsumer /\ [][NextConsumer]_vars

\* the goroutines are scheduled: the loop takes its next step whenever it can,
\* a sleep ends, a handler that was invoked returns, and Stop, once called,
\* runs on; messages, fetch errors and the stop signal come when they come
SpecConsumerLive ==
    /\ SpecConsumer
    /\ WF_vars(LoopSelect)
    /\ WF_vars(FetchCancelled)
    /\ WF_vars(Sleep)
    /\ WF_vars(HandleMessage)
    /\ WF_vars(HandlerReturn)
    /\ WF_vars(CommitMessages)
    /\ WF_vars(StopWait)
    /\ WF_vars(StopClose)

\* ------------------------------------------------- user-created handler
\* the Data of a user-created envelope: an object carrying a user_id, an
\* object without one, or a value that is no object
EventDatas == {"object_with_user", "object_without_user", "not_an_object"}

UserCreatedMessages == [valid : {TRUE}, type : {"user_created"}, data : EventDatas]

UserCreatedTopics == UNION {[1..n -> UserCreatedMessages] : n \in 1..MaxLog}

\* json.Marshal(event.Data), then json.Unmarshal into events.UserCreatedEvent
DecodeUserCreated(data) ==
    IF data = "not_an_object" THEN [ok |-> FALSE, UserID |-> ""]
    ELSE [ok |-> TRUE, UserID |-> IF data = "object_with_user" THEN "u1" ELSE ""]

\* the request handleUserCreated builds: no resource id, the default avatar
CreateDto(userID) ==
    [Filename |-> "avatar.png", ContentType |-> "image/png", ResourceType |-> "users",
     ResourceID |-> Nil, UserID |-> userID, Data |-> "default-avatar", Metadata |-> NoMetadata]

\* Handle returns to handleMessage, which returns to the loop
HandlerReturns(ok) ==
    /\ loop' = [loop EXCEPT !.pc = AfterHandleMessage(~ok), !.err = ~ok]
    /\ outcome' = [outcome EXCEPT ![loop.offset] = IF ok THEN "ok" ELSE "handler_error"]
    /\ prev' = [offset |-> loop.offset, result |-> IF ok THEN "ok" ELSE "handler_error"]
    /\ inflight' = inflight - 1

\* "if userCreatedEvent.UserID == "" { return nil }"
SkipsNever(userID) == FALSE

Skips(userID) == userID = ""

\* handleUserCreated up to the UploadAsset call
HandlerDecode ==
    /\ loop.pc = "handler"
    /\ inflight > 0
    /\ LET event == DecodeUserCreated(topic[loop.offset].data) IN
       IF ~event.ok THEN HandlerReturns(FALSE)
       ELSE IF Skips(event.UserID) THEN HandlerReturns(TRUE)
       ELSE /\ loop' = [loop EXCEPT !.pc = "upload", !.call = started + 1]
            /\ UNCHANGED <<outcome, prev, inflight>>
    /\ UNCHANGED <<service, others, topic, handlers, main, cancelled, position, committed, fetchErrors>>

\* h.assetsService.UploadAsset(ctx, createDto, fileData): its first step
HandlerUploadPut(c) ==
    /\ loop.pc = "upload"
    /\ loop.call = started + 1
    /\ UploadPutOf(c, {CreateDto(DecodeUserCreated(topic[loop.offset].data).UserID)})

HandlerUploadPanic(c) ==
    /\ loop.pc = "upload"
    /\ loop.call = started + 1
    /\ UploadPanicOf(c, {CreateDto(DecodeUserCreated(topic[loop.offset].data).UserID)})

\* "if err != nil { return status.Errorf(...) }" after UploadAsset
AfterUploadAssetPublishes(ok) == TRUE

AfterUploadAsset(ok) == ok

\* UploadAsset has returned to the handler
HandlerUploaded ==
    /\ loop.pc = "upload"
    /\ \E c \in CallIds :
         /\ calls[c].op = "UploadAsset"
         /\ calls[c].n = loop.call
         /\ calls[c].pc = "done"
         /\ IF AfterUploadAsset(calls[c].ret # "error")
            THEN /\ loop' = [loop EXCEPT !.pc = "publish"]
                 /\ UNCHANGED <<outcome, prev, inflight>>
            ELSE HandlerReturns(FALSE)
    /\ UNCHANGED <<service, others, topic, handlers, main, cancelled, position, committed, fetchErrors>>

\* h.eventPublisher.PublishAvatarUpdated(ctx, userID, asset.URL), then return
HandlerPublish ==
    /\ loop.pc = "publish"
    /\ \E c \in CallIds, ok \in BOOLEAN :
         /\ calls[c].op = "UploadAsset"
         /\ calls[c].n = loop.call
         /\ published' = IF ok
                          THEN Append(published, [offset |-> loop.offset, userID |-> calls[c].dto.UserID,
                                                  asset |-> calls[c].asset.ID])
                          ELSE published
         /\ HandlerReturns(ok)
    /\ UNCHANGED <<service, reply, topic, handlers, main, cancelled, position, committed, fetchErrors>>

\* the consumer of user-created envelopes with the handler and the service
\* behind it, on empty stores
InitHandler ==
    /\ impl \in Impls
    /\ now = 0
    /\ slugSeq = 0
    /\ started = 0
    /\ objects = {}
    /\ rows = <<>>
    /\ cache = {}
    /\ calls = [c \in CallIds |-> IdleCall]
    /\ reply = NoReply
    /\ published = <<>>
    /\ \E t \in UserCreatedTopics : ConsumerNew(t)

NextHandler ==
    \/ RegisterHandlers
    \/ Start
    \/ LoopSelect
    \/ FetchMessage
    \/ HandleMessage
    \/ HandlerDecode
    \/ \E c \in CallIds : HandlerUploadPut(c)
    \/ \E c \in CallIds : HandlerUploadPanic(c)
    \/ \E c \in CallIds : UploadCreate(c)
    \/ \E c \in CallIds : UploadRollback(c)
    \/ \E c \in CallIds : UploadCache(c)
    \/ HandlerUploaded
    \/ HandlerPublish
    \/ CommitMessages

SpecHandler == InitHandler /\ [][NextHandler]_vars

\* ------------------------------------------------- repository statements
MaxRows == 2

Limits == {1, 2}
Offsets == {0, 1}

\* the tables the service can find in the database: ids in creation order,
\* rows live, soft-deleted (deleted_at set) or deactivated (active = false)
TableRows ==
    [StorageKey : {"k"}, UserID : RequestUsers, FileHash : {"h"}, Active : BOOLEAN, Deleted : BOOLEAN]

\* the row with id i in the state st: inserted, and soft-deleted since if so
StoredRow(i, st) ==
    SetPublicUrl([ID |-> i, StorageKey |-> st.StorageKey, UserID |-> st.UserID, FileHash |-> st.FileHash,
                  Active |-> st.Active, Deleted |-> st.Deleted, PublicURL |-> "",
                  Metadata |-> SystemMetadata(st.FileHash, st.StorageKey),
                  UpdatedAt |-> IF st.Deleted THEN "delete" ELSE "insert"])

Tables ==
    UNION {{[i \in 1..n |-> StoredRow(i, t[i])] : t \in [1..n -> TableRows]} : n \in 0..MaxRows}

\* the ids a WHERE clause selects: "active = true AND deleted_at IS NULL",
\* and "user_id = $n" when a user is given
Selected(userID) ==
    {i \in 1..Len(rows) : Visible(i) /\ (userID = Nil \/ rows[i].UserID = userID)}

\* ORDER BY created_at DESC
RECURSIVE Descending(_)
Descending(ids) ==
    IF ids = {} THEN <<>>
    ELSE LET newest == CHOOSE i \in ids : \A j \in ids : j <= i
         IN <<rows[newest]>> \o Descending(ids \ {newest})

\* LIMIT $2 OFFSET $3
Page(found, limit, offset) ==
    [i \in 1..(IF Len(found) - offset < limit
               THEN (IF Len(found) > offset THEN Len(found) - offset ELSE 0)
               ELSE limit) |-> found[offset + i]]

\* SELECT COUNT(*): the count of every row of the user, whatever its state
CountAssetsOfAnyState(userID) ==
    Cardinality({i \in 1..Len(rows) : userID = Nil \/ rows[i].UserID = userID})

CountAssets(userID) == Cardinality(Selected(userID))

\* AssetsRepository.GetAssetByID
RepoGetAssetByID(id, ok) ==
    IF ~ok THEN [NoReply EXCEPT !.op = "GetAssetByID", !.id = id, !.err = "failed to get asset"]
    ELSE IF ~Visible(id) THEN [NoReply EXCEPT !.op = "GetAssetByID", !.id = id, !.err = "asset not found"]
    ELSE [NoReply EXCEPT !.op = "GetAssetByID", !.id = id, !.page = <<rows[id]>>, !.total = 1]

\* AssetsRepository.GetAssetsByUserID: the count query, then the page query
RepoGetAssetsByUserID(userID, limit, offset, ok) ==
    LET asked == [NoReply EXCEPT !.op = "GetAssetsByUserID", !.userID = userID,
                                 !.limit = limit, !.offset = offset]
    IN IF ~ok THEN [asked EXCEPT !.err = "failed to count assets"]
       ELSE [asked EXCEPT !.page = Page(Descending(Selected(userID)), limit, offset),
                          !.total = CountAssets(userID)]

\* AssetsRepository.GetAssetsByFilter: the user filter is optional
RepoGetAssetsByFilter(userID, limit, offset, ok) ==
    LET asked == [NoReply EXCEPT !.op = "GetAssetsByFilter", !.userID = userID,
                                 !.limit = limit, !.offset = offset]
    IN IF ~ok THEN [asked EXCEPT !.err = "failed to count assets"]
       ELSE [asked EXCEPT !.page = Page(Descending(Selected(userID)), limit, offset),
                          !.total = CountAssets(userID)]

\* the row after UPDATE ... SET: updated_at always, a pointer field when the
\* pointer is set, file_hash when the string is not empty; then the triggers
Updated(row, dto) ==
    SetPublicUrl([row EXCEPT !.UpdatedAt = "update",
                             !.PublicURL = IF dto.PublicURL # Nil THEN dto.PublicURL ELSE @,
                             !.UserID = IF dto.UserID # Nil THEN dto.UserID ELSE @,
                             !.FileHash = IF dto.FileHash # "" THEN dto.FileHash ELSE @])

\* the partial records that reassign the owner
UpdateDtos == [ID : 1..MaxRows, UserID : {Nil, "u2"}, PublicURL : {Nil}, FileHash : {""}]

\* the partial records for one row, public_url included
AnyUpdateDtos ==
    [ID : 1..MaxRows, UserID : {Nil, "u1", "u2"}, PublicURL : {Nil, "https://cdn/a"}, FileHash : {"", "h2"}]

GetOne ==
    /\ \E id \in 1..MaxRows, ok \in BOOLEAN : reply' = RepoGetAssetByID(id, ok)
    /\ UNCHANGED <<service, consumer, published>>

ListByUser ==
    /\ \E userID \in RequestUsers, limit \in Limits, offset \in Offsets, ok \in BOOLEAN :
         reply' = RepoGetAssetsByUserID(userID, limit, offset, ok)
    /\ UNCHANGED <<service, consumer, published>>

ListByFilter ==
    /\ \E userID \in {Nil, "u1"}, limit \in Limits, offset \in Offsets, ok \in BOOLEAN :
         reply' = RepoGetAssetsByFilter(userID, limit, offset, ok)
    /\ UNCHANGED <<service, consumer, published>>

\* AssetsRepository.UpdateAsset: UPDATE ... WHERE ... RETURNING
UpdateOf(dtos) ==
    /\ \E dto \in dtos, ok \in BOOLEAN :
         LET asked == [NoReply EXCEPT !.op = "UpdateAsset", !.id = dto.ID, !.dto = dto] IN
         IF ~ok
         THEN reply' = [asked EXCEPT !.err = "failed to update asset"] /\ rows' = rows
         ELSE IF ~Visible(dto.ID)
         THEN reply' = [asked EXCEPT !.err = "asset not found"] /\ rows' = rows
         ELSE /\ rows' = [rows EXCEPT ![dto.ID] = Updated(@, dto)]
              /\ reply' = [asked EXCEPT !.page = <<Updated(rows[dto.ID], dto)>>, !.total = 1]
    /\ UNCHANGED <<consumer, published, impl, now, slugSeq, started, objects, cache, calls>>

UpdateOne == UpdateOf(UpdateDtos)

UpdateAny == UpdateOf(AnyUpdateDtos)

\* AssetsRepository.DeleteAsset: UPDATE ... SET deleted_at = NOW() WHERE ...
DeleteOne ==
    /\ \E id \in 1..MaxRows, ok \in BOOLEAN :
         LET asked == [NoReply EXCEPT !.op = "DeleteAsset", !.id = id] IN
         IF ~ok
         THEN reply' = [asked EXCEPT !.err = "failed to delete asset"] /\ rows' = rows
         ELSE IF ~Visible(id)
         THEN reply' = [asked EXCEPT !.err = "asset not found"] /\ rows' = rows
         ELSE /\ rows' = [rows EXCEPT ![id] = SoftDeleted(@)]
              /\ reply' = [asked EXCEPT !.total = 1]
    /\ UNCHANGED <<consumer, published, impl, now, slugSeq, started, objects, cache, calls>>

\* the repository alone, on any table
InitRepository ==
    /\ ConsumerNew(<<>>)
    /\ impl = "part_008"
    /\ now = 0
    /\ slugSeq = 0
    /\ started = 0
    /\ objects = {}
    /\ cache = {}
    /\ calls = [c \in CallIds |-> IdleCall]
    /\ reply = NoReply
    /\ published = <<>>
    /\ rows \in Tables

NextRepository ==
    \/ GetOne
    \/ ListByUser
    \/ ListByFilter
    \/ UpdateOne
    \/ DeleteOne

SpecRepository == InitRepository /\ [][NextRepository]_vars

\* partial updates alone, with any partial record
NextUpdates ==
    \/ UpdateAny

SpecUpdates == InitRepository /\ [][NextUpdates]_vars

\* AssetsService.GetAssetsByUserID, the first call made on the service:
\* assetsRepo.GetAssetsByUserID, then return what it answered or wrap its error
GetAssetsByUserID(c) ==
    /\ CanStart(c)
    /\ started = 0
    /\ \E userID \in RequestUsers, limit \in Limits, offset \in Offsets, ok \in BOOLEAN :
         LET answer == RepoGetAssetsByUserID(userID, limit, offset, ok) IN
         /\ reply' = answer
         /\ calls' = [calls EXCEPT ![c] =
              [IdleCall EXCEPT !.op = "GetAssetsByUserID", !.n = started + 1, !.userID = userID,
                        !.pc = "done",
                        !.page = IF ok THEN answer.page ELSE <<>>,
                        !.total = IF ok THEN answer.total ELSE 0,
                        !.ret = IF ok THEN "ok" ELSE "error",
                        !.err = IF ok THEN NoErr
                                ELSE NewDomainError("resource_not_found_error", "Failed to get assets", answer.err),
                        !.trace = Did(@, "repo.GetAssetsByUserID", ok)]]
    /\ started' = started + 1
    /\ UNCHANGED <<consumer, published, impl, now, slugSeq, objects, rows, cache>>

\* one listing of a user's assets on any table, among soft deletes
NextListing ==
    \/ \E c \in CallIds : GetAssetsByUserID(c)
    \/ DeleteOne

SpecListing == InitRepository /\ [][NextListing]_vars

\* ------------------------------------------------------------ properties
UploadDone(c) == calls[c].op = "UploadAsset" /\ calls[c].pc = "done"
DeleteDone(c) == calls[c].op = "DeleteAsset" /\ calls[c].pc = "done"
GetDone(c) == calls[c].op = "GetAssetByID" /\ calls[c].pc = "done"

\* call c is made in this step
Starts(c, op) == calls'[c].op = op /\ calls'[c].n = started + 1 /\ started' = started + 1

\* call c returns to its caller in this step
Returns(c, op) == calls'[c].op = op /\ calls'[c].pc = "done" /\ calls'[c] # calls[c]

Made(trace, port, ok) == \E i \in 1..Len(trace) : trace[i] = [port |-> port, ok |-> ok]
Called(trace, port) == \E i \in 1..Len(trace) : trace[i].port = port
Last(trace) == trace[Len(trace)]

RowsWithKey(k) == {i \in 1..Len(rows) : rows[i].StorageKey = k}
ObjectsWithKey(k) == {o \in objects : o.key = k}

\* C1: when an UploadAsset call returns success, the object store holds
\* exactly one object under the call's storage key and the repository holds
\* exactly one row with that storage key.
C1_ExactlyOneObjectAndRow ==
    [][\A c \in CallIds :
         (Returns(c, "UploadAsset") /\ calls'[c].ret = "ok")
         => /\ Cardinality(ObjectsWithKey(calls[c].key))' = 1
            /\ Cardinality(RowsWithKey(calls[c].key))' = 1]_vars

\* C2: when the repository create failed after the object write, the call
\* issues storage.DeleteFile for its key as its last port call before it
\* returns the error, and if that delete succeeded the object is absent at
\* the moment of the return.
C2_CompensatingDelete ==
    [][\A c \in CallIds :
         (Returns(c, "UploadAsset") /\ Made(calls'[c].trace, "repo.CreateAsset", FALSE))
         => /\ calls'[c].ret = "error"
            /\ Last(calls'[c].trace).port = "storage.DeleteFile"
            /\ (Last(calls'[c].trace).ok => ~Has(objects', calls'[c].key))]_vars

C2_Witness ==
    \E c \in CallIds :
        /\ UploadDone(c)
        /\ Made(calls[c].trace, "storage.UploadFile", TRUE)
        /\ Made(calls[c].trace, "repo.CreateAsset", FALSE)
        /\ Last(calls[c].trace) = [port |-> "storage.DeleteFile", ok |-> TRUE]
        /\ ~Has(objects, calls[c].key)

\* C3: the error of an upload whose create failed and whose compensating
\* delete failed too differs from the error of an upload whose create failed
\* and whose compensating delete succeeded.
C3_OrphanErrorDistinct ==
    \A c, d \in CallIds :
        (/\ UploadDone(c) /\ Made(calls[c].trace, "repo.CreateAsset", FALSE)
         /\ Made(calls[c].trace, "storage.DeleteFile", FALSE)
         /\ UploadDone(d) /\ Made(calls[d].trace, "repo.CreateAsset", FALSE)
         /\ Made(calls[d].trace, "storage.DeleteFile", TRUE))
        => calls[c].err # calls[d].err

\* C4: when the object-store write fails, the call returns an error at once:
\* storage.UploadFile is its only port call (no create, no cache set, no
\* compensating delete) and repository and cache are unchanged.
C4_WriteFailureIsTerminal ==
    [][\A c \in CallIds :
         (Starts(c, "UploadAsset") /\ Made(calls'[c].trace, "storage.UploadFile", FALSE))
         => /\ calls'[c].pc = "done"
            /\ calls'[c].ret = "error"
            /\ calls'[c].err # NoErr
            /\ calls'[c].trace = <<[port |-> "storage.UploadFile", ok |-> FALSE]>>
            /\ rows' = rows
            /\ cache' = cache]_vars

C4_Witness ==
    \E c \in CallIds :
        /\ UploadDone(c)
        /\ calls[c].ret = "error"
        /\ calls[c].trace = <<[port |-> "storage.UploadFile", ok |-> FALSE]>>
        /\ Len(rows) > 0
        /\ cache # {}

\* C5: every repository row has a storage_key naming an object present in
\* the object store, after any interleaving of UploadAsset calls.
C5_NoDanglingRow ==
    \A i \in 1..Len(rows) : Has(objects, rows[i].StorageKey)

\* C6: a DeleteAsset call soft-deletes the row only after a successful
\* object-store delete made earlier by the same call.
C6_ObjectDeleteBeforeSoftDelete ==
    \A c \in CallIds :
        calls[c].op = "DeleteAsset"
        => \A j \in 1..Len(calls[c].trace) :
             calls[c].trace[j] = [port |-> "repo.DeleteAsset", ok |-> TRUE]
             => \E i \in 1..(j - 1) :
                  calls[c].trace[i] = [port |-> "storage.DeleteFile", ok |-> TRUE]

\* the step in which call c gets the failure of its object-store delete
DeleteFileFails(c) ==
    /\ calls'[c].op = "DeleteAsset"
    /\ calls'[c] # calls[c]
    /\ Last(calls'[c].trace) = [port |-> "storage.DeleteFile", ok |-> FALSE]

\* C7: when the object-store delete of DeleteAsset fails, the call returns
\* the storage-delete error at once, has made no repository soft-delete
\* call, and leaves every row as it was, so a row that was fetchable still is.
C7_StorageDeleteFailureAborts ==
    [][\A c \in CallIds :
         DeleteFileFails(c)
         => /\ calls'[c].pc = "done"
            /\ calls'[c].ret = "error"
            /\ calls'[c].err.code = "unable_to_delete_error"
            /\ calls'[c].err.message = "Failed to delete file from storage"
            /\ ~Called(calls'[c].trace, "repo.DeleteAsset")
            /\ rows' = rows
            /\ (Visible(calls[c].assetID) => Visible(calls[c].assetID)')]_vars

C7_Witness ==
    \E c, g \in CallIds :
        /\ DeleteDone(c)
        /\ Last(calls[c].trace) = [port |-> "storage.DeleteFile", ok |-> FALSE]
        /\ Visible(calls[c].assetID)
        /\ GetDone(g)
        /\ calls[g].assetID = calls[c].assetID
        /\ calls[g].ret = "ok"
        /\ Made(calls[g].trace, "repo.GetAssetByID", TRUE)

\* the step in which call c starts DeleteAsset(id, userA) on a fetchable
\* asset whose owner is set and is not userA
DeleteByOther(c) ==
    /\ Starts(c, "DeleteAsset")
    /\ Visible(calls'[c].assetID)
    /\ rows[calls'[c].assetID].UserID # Nil
    /\ rows[calls'[c].assetID].UserID # calls'[c].userID

NoDeleteEffect(c) ==
    /\ ~Called(calls'[c].trace, "storage.DeleteFile")
    /\ ~Called(calls'[c].trace, "cache.Delete")
    /\ ~Called(calls'[c].trace, "repo.DeleteAsset")
    /\ objects' = objects
    /\ cache' = cache
    /\ rows' = rows

C9_PartialDeleteDistinct ==
    \A c \in CallIds :
        (/\ DeleteDone(c)
         /\ Made(calls[c].trace, "storage.DeleteFile", TRUE)
         /\ Last(calls[c].trace) = [port |-> "repo.DeleteAsset", ok |-> FALSE])
        => calls[c].err.code # DeleteFileError.code

\* C10: on a cache hit GetAssetByID returns the cached asset at once; the
\* cache read is its only port call, so no repository call is made.
C10_CacheHitSkipsRepository ==
    [][\A c \in CallIds :
         (Starts(c, "GetAssetByID") /\ Made(calls'[c].trace, "cache.Get", TRUE))
         => /\ calls'[c].pc = "done"
            /\ calls'[c].ret = "ok"
            /\ calls'[c].asset = Lookup(cache, GetCacheKey(calls'[c].assetID))
            /\ calls'[c].trace = <<[port |-> "cache.Get", ok |-> TRUE]>>
            /\ rows' = rows]_vars

C10_Witness ==
    \E c \in CallIds :
        /\ GetDone(c)
        /\ calls[c].ret = "ok"
        /\ calls[c].trace = <<[port |-> "cache.Get", ok |-> TRUE]>>
        /\ calls[c].asset.ID = calls[c].assetID

\* the entry the cache holds for id under the key GetAssetByID reads
CacheHolds(id) == Has(cache, GetCacheKey(id))

\* C11: a GetAssetByID call that did not hit the cache reads the
\* repository; when the repository returns the asset the call writes it back
\* to the cache under the asset's key and returns it, and when the
\* repository has no matching active row the call fails with NotFound and
\* writes nothing to the cache.
C11_MissReadsRepositoryAndWritesBack ==
    [][\A c \in CallIds :
         (Returns(c, "GetAssetByID") /\ ~Made(calls'[c].trace, "cache.Get", TRUE))
         => /\ Called(calls'[c].trace, "repo.GetAssetByID")
            /\ IF Made(calls'[c].trace, "repo.GetAssetByID", TRUE)
               THEN /\ calls'[c].ret = "ok"
                    /\ calls'[c].asset.ID = calls'[c].assetID
                    /\ Called(calls'[c].trace, "cache.Set")
                    /\ (Last(calls'[c].trace).ok
                        => /\ CacheHolds(calls[c].assetID)'
                           /\ Lookup(cache', GetCacheKey(calls'[c].assetID)) = calls'[c].asset)
               ELSE /\ calls'[c].ret = "error"
                    /\ calls'[c].err.code = "resource_not_found_error"
                    /\ ~Called(calls'[c].trace, "cache.Set")
                    /\ cache' = cache]_vars

\* C12: a GetAssetByID made for an id whose row a successful DeleteAsset has
\* soft-deleted does not return the asset: it is no cache hit, and when it
\* returns from the repository read it fails with NotFound.
C12_SoftDeletedIsNotFound ==
    [][\A c \in CallIds :
         /\ (/\ Starts(c, "GetAssetByID")
             /\ calls'[c].assetID \in 1..Len(rows)
             /\ rows[calls'[c].assetID].Deleted)
            => calls'[c].ret # "ok"
         /\ (/\ Returns(c, "GetAssetByID")
             /\ Last(calls'[c].trace).port = "repo.GetAssetByID"
             /\ calls'[c].assetID \in 1..Len(rows)
             /\ rows[calls'[c].assetID].Deleted)
            => /\ calls'[c].ret = "error"
               /\ calls'[c].err.code = "resource_not_found_error"]_vars

\* C13: a GetAssetByID made for the id of an uploaded or deleted asset while
\* the cache holds no entry for that id returns the repository state of the
\* moment of its repository read: the active row, or NotFound when there is
\* no active row.
C13_MissReturnsRepositoryState ==
    [][\A c \in CallIds :
         (/\ calls[c].op = "GetAssetByID"
          /\ calls[c].pc = "repo"
          /\ calls'[c] # calls[c]
          /\ calls[c].assetID \in 1..Len(rows))
         => IF Visible(calls[c].assetID)
            THEN calls'[c].asset = rows[calls[c].assetID] /\ calls'[c].ret # "error"
            ELSE calls'[c].ret = "error" /\ calls'[c].err.code = "resource_not_found_error"]_vars

\* the step in which call c gets the answer of a cache call
CacheStep(c, port) ==
    /\ calls'[c] # calls[c]
    /\ Last(calls'[c].trace).port = port

\* C14: no cache call's failure reaches the caller.  Whatever cache.Set
\* answered, UploadAsset and GetAssetByID return the asset with no error;
\* whatever cache.Delete answered, DeleteAsset goes on to the soft-delete
\* with no error; a cache.Get that did not yield the entry sends
\* GetAssetByID to the repository with no error; and none of these steps
\* changes the object store or the repository.
C14_CacheFailureSwallowed ==
    [][\A c \in CallIds :
         /\ CacheStep(c, "cache.Set")
            => /\ calls'[c].pc = "done"
               /\ calls'[c].ret = "ok"
               /\ calls'[c].err = NoErr
               /\ calls'[c].asset = calls[c].asset
               /\ objects' = objects /\ rows' = rows
         /\ CacheStep(c, "cache.Delete")
            => /\ calls'[c].pc = "repo"
               /\ calls'[c].err = NoErr
               /\ objects' = objects /\ rows' = rows
         /\ (CacheStep(c, "cache.Get") /\ ~Last(calls'[c].trace).ok)
            => /\ calls'[c].pc = "repo"
               /\ calls'[c].err = NoErr
               /\ objects' = objects /\ rows' = rows]_vars

C14_Witness ==
    \E u, d \in CallIds :
        /\ UploadDone(u)
        /\ calls[u].ret = "ok"
        /\ Last(calls[u].trace) = [port |-> "cache.Set", ok |-> FALSE]
        /\ DeleteDone(d)
        /\ calls[d].ret = "ok"
        /\ Made(calls[d].trace, "cache.Delete", FALSE)
        /\ rows[calls[d].assetID].Deleted

\* C15: an UploadAsset call with an empty filename, an empty content type
\* or a zero-length payload is rejected with InvalidInput at once: it makes
\* no port call, so no object is written, no row created, no entry cached.
C15_EmptyInputRejected ==
    [][\A c \in CallIds :
         (/\ Starts(c, "UploadAsset")
          /\ (calls'[c].dto.Filename = "" \/ calls'[c].dto.ContentType = "" \/ calls'[c].dto.Data = ""))
         => /\ calls'[c].pc = "done"
            /\ calls'[c].ret = "error"
            /\ calls'[c].err.code = "invalid_input_error"
            /\ calls'[c].trace = <<>>
            /\ objects' = objects /\ rows' = rows /\ cache' = cache]_vars

\* ------------------------------------------------- properties of the consumer
\* the step in which FetchMessage hands the loop a message
Fetched == loop.pc = "fetch" /\ loop'.pc = "handle"

\* the step in which handleMessage takes up the message the loop fetched
Dispatched == loop.pc = "handle" /\ loop' # loop

\* the step in which the loop passes its message to CommitMessages
Committing == loop.pc = "commit" /\ loop'.pc # "commit"

\* C16: when a registered handler returned an error for an envelope, the
\* next message the fetch loop is handed is that same envelope.
C16_FailedEnvelopeIsNextDispatched ==
    [][(Fetched /\ prev.result = "handler_error") => loop'.offset = prev.offset]_vars

\* C17: the loop passes a message to CommitMessages only when handleMessage
\* returned no error for that message in this iteration: its body was
\* deserialized and its handler, if any, returned nil; and a commit moves
\* the group's offset just past that message.
C17_CommitOnlyOnSuccess ==
    [][Committing
       => /\ ~loop.err
          /\ topic[loop.offset].valid
          /\ outcome[loop.offset] \in {"ok", "no_handler"}
          /\ prev.offset = loop.offset
          /\ committed' \in {committed, loop.offset + 1}]_vars

C17_Witness ==
    \E o, q \in 1..Len(topic) :
        /\ outcome[o] = "ok"
        /\ committed = o + 1
        /\ q > o
        /\ outcome[q] \in {"handler_error", "bad_body"}
        /\ prev.offset = q
        /\ loop.pc = "fetch"

\* the message at offset o is an envelope of a type without a handler
Unhandled(o) == topic[o].valid /\ topic[o].type \notin handlers

\* C18 as stated: an envelope whose type has no registered handler causes
\* no handler invocation, produces no error, is committed in the same loop
\* iteration, and is never fetched again.
C18_UnknownTypeCommitted ==
    [][/\ (Dispatched /\ Unhandled(loop.offset))
          => /\ inflight' = inflight
             /\ ~loop'.err
             /\ loop'.pc = "commit"
       /\ (Committing /\ Unhandled(loop.offset)) => committed' > loop.offset
       /\ Fetched => outcome[loop'.offset] # "no_handler"]_vars

\* C18 amended: an envelope whose type has no registered handler causes no
\* handler invocation, produces no error and is passed to CommitMessages in
\* the same loop iteration; a commit that succeeds moves the group's offset
\* just past it, and the loop is never handed the envelope again.
C18_UnknownTypePassedToCommit ==
    [][/\ (Dispatched /\ Unhandled(loop.offset))
          => /\ inflight' = inflight
             /\ ~loop'.err
             /\ loop'.pc = "commit"
       /\ (Committing /\ Unhandled(loop.offset) /\ committed' # committed)
          => committed' = loop.offset + 1
       /\ Fetched => outcome[loop'.offset] # "no_handler"]_vars

C18_Witness ==
    \E o \in 1..Len(topic) :
        /\ Unhandled(o)
        /\ outcome[o] = "no_handler"
        /\ committed = o + 1
        /\ loop.pc = "fetch"
        /\ inflight = 0

\* C19: a message whose body cannot be deserialized invokes no handler and
\* is not passed to CommitMessages; the group's offset never moves past it,
\* and the next message the loop is handed is that message again.
C19_BadBodyRedelivered ==
    [][/\ (Dispatched /\ ~topic[loop.offset].valid)
          => /\ inflight' = inflight
             /\ loop'.err
             /\ loop'.pc # "commit"
       /\ \A o \in 1..Len(topic) : ~topic[o].valid /\ outcome[o] = "bad_body" => committed' <= o
       /\ (Fetched /\ prev.result = "bad_body") => loop'.offset = prev.offset]_vars

\* C20: at most one handler invocation is in progress, and only while the
\* loop waits for it; a message is fetched only when no handler runs and the
\* loop holds no message (the previous one was passed to CommitMessages or
\* given up), and it is the message at the reader's position; the handler is
\* invoked for the message this iteration fetched.
C20_OneAtATimeInOrder ==
    /\ [](inflight <= 1 /\ (inflight = 1 => loop.pc = "handler"))
    /\ [][/\ Fetched => (inflight = 0 /\ loop.offset = 0 /\ loop'.offset = position)
          /\ inflight' > inflight => (Dispatched /\ inflight = 0 /\ loop'.offset = loop.offset)]_vars

C20_Witness ==
    /\ Len(topic) >= 2
    /\ inflight = 1
    /\ loop.pc = "handler"
    /\ loop.offset = 2
    /\ outcome[1] \in {"ok", "handler_error"}
    /\ prev.offset = 1
\* C21: Stop cancels the fetch loop's context before it waits; it gets past
\* the wait, closes the readers and returns only when the loop has exited with
\* no handler running; after Stop has returned nothing is fetched, no handler
\* is invoked and nothing is committed.
C21_StopWaitsForLoops ==
    /\ [](main \in {"stopping", "closing", "stopped"} => cancelled)
    /\ [](main \in {"closing", "stopped"} => loop.pc = "exited" /\ inflight = 0)
    /\ [][main = "stopped" =>
            /\ ~Fetched /\ ~Dispatched /\ ~Committing
            /\ UNCHANGED <<loop, position, committed, inflight, outcome, prev>>]_vars

\* Stop has returned after the loop committed a message, with messages still
\* left on the topic
C21_Witness ==
    /\ main = "stopped"
    /\ committed > 1
    /\ position <= Len(topic)

\* C30: the handler registry changes only while no fetch loop exists, and the
\* fetch loop is launched only after the registration of the startup sequence
\* has completed; while the loop runs the registry is only read.
C30_RegisterBeforeStart ==
    /\ [][handlers' # handlers => loop.pc = "none" /\ loop'.pc = "none"]_vars
    /\ [][loop.pc = "none" /\ loop'.pc # "none" =>
            main = "registered" /\ handlers = {"user_created"} /\ handlers' = handlers]_vars

\* the loop has looked a handler up in the registry and is running it
C30_Witness ==
    /\ loop.pc = "handler"
    /\ main = "started"
    /\ handlers = {"user_created"}

\* ------------------------------------------- properties of the storage key
Set(v) == v # Nil /\ v # ""

\* the disambiguators a slug can carry: a clock reading or a sequence number
SlugNumbers == 0..(MaxTime + MaxCalls + 1)

\* the object written by the call made in this step, and the row it creates
WritesUnder(c, key) ==
    /\ calls'[c].key = key
    /\ Called(calls'[c].trace, "storage.UploadFile")
    /\ Made(calls'[c].trace, "storage.UploadFile", TRUE) => [key |-> key, val |-> calls'[c].dto.Data] \in objects'

StoresUnder(c) ==
    (calls[c].op = "UploadAsset" /\ calls[c].pc = "create" /\ Len(rows') = Len(rows) + 1)
    => rows'[Len(rows')].StorageKey = calls[c].key

\* C24: a request with a non-empty resource type and a non-empty resource id
\* is written to the object store under {resourceType}/{resourceId}/{slug},
\* the slug ending in the filename, and its row stores that same key.
C24_KeyWithTypeAndId ==
    [][\A c \in CallIds :
         /\ (/\ Starts(c, "UploadAsset")
             /\ Set(calls'[c].dto.ResourceType) /\ Set(calls'[c].dto.ResourceID))
            => \E n \in SlugNumbers :
                 WritesUnder(c, calls'[c].dto.ResourceType \o "/" \o calls'[c].dto.ResourceID
                                \o "/" \o UniqueSlug(n, calls'[c].dto.Filename))
         /\ StoresUnder(c)]_vars

\* a row whose key has the three parts, with its object in the store
C24_Witness ==
    \E c \in CallIds :
        /\ calls[c].n = 1
        /\ calls[c].pc = "cache"
        /\ Set(calls[c].dto.ResourceType) /\ Set(calls[c].dto.ResourceID)
        /\ calls[c].dto.Filename # ""
        /\ rows[Len(rows)].StorageKey = calls[c].key
        /\ Has(objects, calls[c].key)

\* C25: a request with a non-empty resource type and no resource id (nil or
\* empty) gets the key {resourceType}/{slug} and goes on to the object-store
\* write.
C25_KeyWithTypeOnly ==
    [][\A c \in CallIds :
         (/\ Starts(c, "UploadAsset")
          /\ Set(calls'[c].dto.ResourceType) /\ ~Set(calls'[c].dto.ResourceID))
         => \E n \in SlugNumbers :
              WritesUnder(c, calls'[c].dto.ResourceType \o "/" \o UniqueSlug(n, calls'[c].dto.Filename))]_vars

\* C26: a request with no resource association gets the slug alone as its
\* key, which is not empty and ends in the filename.
C26_KeyWithoutResource ==
    [][\A c \in CallIds :
         (/\ Starts(c, "UploadAsset")
          /\ ~Set(calls'[c].dto.ResourceType) /\ ~Set(calls'[c].dto.ResourceID))
         => /\ calls'[c].key # ""
            /\ \E n \in SlugNumbers : WritesUnder(c, UniqueSlug(n, calls'[c].dto.Filename))]_vars

\* C27: in every state, the file_hash of each row is the digest of the bytes
\* that the object store holds under the row's storage_key.
C27_HashMatchesStoredBytes ==
    \A i \in 1..Len(rows) : \A o \in ObjectsWithKey(rows[i].StorageKey) :
        rows[i].FileHash = Sha256(o.val)

\* ------------------------------------------- properties of the repository
Live(row) == row.Active /\ ~row.Deleted

\* C28: every repository statement acts on live rows only (active = true and
\* deleted_at unset): the rows it returns are live rows of the table, the
\* total is the number of live rows that match, and a row that is not live
\* is never changed, the statement answering "asset not found" instead.
C28_OnlyLiveRows ==
    [][/\ \A k \in 1..Len(reply'.page) :
            /\ Live(reply'.page[k])
            /\ reply'.op \in {"GetAssetByID", "GetAssetsByUserID", "GetAssetsByFilter"}
               => reply'.page[k] = rows[reply'.page[k].ID]
       /\ (reply'.op \in {"GetAssetsByUserID", "GetAssetsByFilter"} /\ reply'.err = "")
          => reply'.total = Cardinality({i \in 1..Len(rows) :
                 /\ Live(rows[i])
                 /\ reply'.userID \in {Nil, rows[i].UserID}})
       /\ \A i \in 1..Len(rows) : ~Live(rows[i]) =>
            /\ rows'[i] = rows[i]
            /\ (reply'.op \in {"GetAssetByID", "UpdateAsset", "DeleteAsset"} /\ reply'.id = i)
               => reply'.err # ""]_vars

\* a soft-deleted row of a user was left out of the user's page and total,
\* which hold a live row of the same user
C28_Witness ==
    /\ reply.op = "GetAssetsByUserID"
    /\ reply.err = ""
    /\ reply.total = 1
    /\ Len(reply.page) = 1
    /\ \E i \in 1..Len(rows) : rows[i].UserID = reply.userID /\ rows[i].Deleted

\* C29: GetAssetsByUserID calls the repository and nothing else, in
\* particular not the cache; on success it returns the page and the total the
\* repository answered, and that total is the number of live rows of the user
\* whatever the limit and the offset.
C29_ListingIsPassThrough ==
    [][\A c \in CallIds : Starts(c, "GetAssetsByUserID") =>
         /\ cache' = cache
         /\ \A k \in 1..Len(calls'[c].trace) : calls'[c].trace[k].port = "repo.GetAssetsByUserID"
         /\ Len(calls'[c].trace) = 1
         /\ reply'.op = "GetAssetsByUserID"
         /\ calls'[c].ret = "ok" <=> reply'.err = ""
         /\ calls'[c].ret = "ok" =>
              /\ calls'[c].page = reply'.page
              /\ calls'[c].total = reply'.total
              /\ calls'[c].total = Cardinality({i \in 1..Len(rows) :
                     Live(rows[i]) /\ rows[i].UserID = calls'[c].userID})]_vars

\* a listing returned a page shorter than its total: the limit or the offset
\* cut the page, not the count
C29_Witness ==
    \E c \in CallIds :
        /\ calls[c].op = "GetAssetsByUserID"
        /\ calls[c].ret = "ok"
        /\ calls[c].total = 2
        /\ Len(calls[c].page) = 1

\* ------------------------------------ properties of the user-created handler
UserOf(o) == DecodeUserCreated(topic[o].data)

\* the handler's UploadAsset call has returned an error
UploadFailed ==
    /\ loop.pc = "upload"
    /\ \E c \in CallIds : /\ calls[c].op = "UploadAsset" /\ calls[c].n = loop.call
                           /\ calls[c].pc = "done" /\ calls[c].ret = "error"

C23_HandlerFailureNotCommitted ==
    [][/\ (UploadFailed /\ loop' # loop)
          => /\ loop'.pc = "select" /\ loop'.err
             /\ outcome'[loop.offset] = "handler_error"
             /\ published' = published
             /\ committed' = committed
       /\ (loop.pc = "publish" /\ loop' # loop /\ published' = published)
          => /\ loop'.pc = "select" /\ loop'.err
             /\ outcome'[loop.offset] = "handler_error"
             /\ committed' = committed
       /\ Committing => outcome[loop.offset] = "ok"]_vars

\* the first upload failed and the publish after the second upload failed:
\* both were returned as handler errors and neither message was committed
C23_Witness ==
    \E o, q \in 1..Len(topic) :
        /\ o < q
        /\ outcome[o] = "handler_error"
        /\ outcome[q] = "handler_error"
        /\ started = 2
        /\ Len(rows) = 1
        /\ \E c \in CallIds : calls[c].n = 2 /\ calls[c].pc = "done" /\ calls[c].ret = "ok"
        /\ published = <<>>
        /\ committed = 1
        /\ loop.pc = "fetch"

\* --------------------------------------- properties of the reader's position
\* C31: once the handler has failed for a message the reader stays on it: no
\* later message is fetched and no commit covers the failed message.
C31_PositionHeldAfterFailure ==
    \A o \in 1..Len(topic) :
        outcome[o] = "handler_error" => (position <= o + 1 /\ committed <= o)

\* ----------------------------------------- properties of distinct uploads
\* C32: the key an UploadAsset call computes is the key of no other upload:
\* no other call in progress or returned carries it, no row stores it and no
\* object lies under it when the call writes.
C32_DistinctKeys ==
    [][\A c \in CallIds : Starts(c, "UploadAsset") =>
         /\ \A d \in CallIds \ {c} : calls[d].op = "UploadAsset" => calls[d].key # calls'[c].key
         /\ RowsWithKey(calls'[c].key) = {}
         /\ ObjectsWithKey(calls'[c].key) = {}]_vars

\* ------------------------------------------------ properties of the cache key
\* C33: when UploadAsset's cache write succeeds, the entry lies under the key
\* that GetAssetByID reads for the persisted asset's id and holds that asset,
\* so a read right after the upload is a hit.
C33_UploadCachesUnderReadKey ==
    [][\A c \in CallIds :
         (/\ calls[c].op = "UploadAsset" /\ calls[c].pc = "cache"
          /\ Made(calls'[c].trace, "cache.Set", TRUE))
         => /\ Has(cache', GetCacheKey(calls[c].asset.ID))
            /\ Lookup(cache', GetCacheKey(calls[c].asset.ID)) = calls[c].asset]_vars

\* ------------------------------------------------- properties of shutdown
\* C34: once the context is cancelled the fetch loop eventually exits,
\* wherever it was, and Stop, once called, eventually returns.
C34_LoopsExitAfterCancel ==
    /\ (cancelled ~> loop.pc = "exited")
    /\ (main = "stopping" ~> main = "stopped")

\* Stop has returned after a loop that had slept on a fetch error and had
\* handled a message
C34_Witness ==
    /\ main = "stopped"
    /\ loop.pc = "exited"
    /\ fetchErrors > 0
    /\ prev.result = "ok"

\* ------------------------------------------- properties of repeated deletes
\* C37: DeleteAsset for an id that has no live row (never created, or soft-
\* deleted) returns NotFound after its repository read and does nothing
\* else: no object-store delete, no cache delete, no soft delete.
C37_DeleteOfMissingIsNotFound ==
    [][\A c \in CallIds :
         (Starts(c, "DeleteAsset") /\ ~Visible(calls'[c].assetID))
         => /\ calls'[c].pc = "done"
            /\ calls'[c].ret = "error"
            /\ calls'[c].err.code = "resource_not_found_error"
            /\ calls'[c].trace = <<[port |-> "repo.GetAssetByID", ok |-> FALSE]>>
            /\ objects' = objects /\ cache' = cache /\ rows' = rows]_vars

\* the second of two sequential deletes of an asset got NotFound
C37_Witness ==
    \E c \in CallIds :
        /\ DeleteDone(c)
        /\ calls[c].n = 2
        /\ \A d \in CallIds \ {c} : calls[d].op = "none"
        /\ calls[c].assetID \in 1..Len(rows)
        /\ rows[calls[c].assetID].Deleted
        /\ calls[c].err.code = "resource_not_found_error"
        /\ calls[c].err.cause = "asset not found"

C35_DeleteSetsOnlyDeletedAt ==
    [][/\ Len(rows') >= Len(rows)
       /\ \A i \in 1..Len(rows) :
            \/ rows'[i] = rows[i]
            \/ rows'[i] = [rows[i] EXCEPT !.Deleted = TRUE]]_vars

\* C35: no step removes a row or changes a row's id, and a step changes a
\* row at most by a soft delete that sets deleted_at and updated_at, the
\* storage key, file hash, owner, public url and active flag staying as
\* they were
C35_RowsKeptAndOnlyMarked ==
    [][/\ Len(rows') >= Len(rows)
       /\ \A i \in 1..Len(rows) :
            \/ rows'[i] = rows[i]
            \/ /\ \E c \in CallIds : calls[c].op = "DeleteAsset" /\ calls[c].pc = "repo" /\ calls[c].assetID = i
               /\ rows'[i] = [rows[i] EXCEPT !.Deleted = TRUE, !.UpdatedAt = "delete"]]_vars

C35_Witness ==
    \E c \in CallIds :
        /\ DeleteDone(c) /\ calls[c].ret = "ok"
        /\ Len(rows) = 2
        /\ rows[calls[c].assetID].Deleted
        /\ rows[calls[c].assetID].UpdatedAt = "delete"
        /\ rows[calls[c].assetID].StorageKey # ""
        /\ rows[calls[c].assetID].FileHash = Sha256("x")
        /\ rows[calls[c].assetID].PublicURL = "/assets/" \o ToString(calls[c].assetID)

\* C36: an UpdateAsset that succeeds leaves every attribute that is null in
\* the partial record as it was and gives every attribute that is supplied
\* the supplied value
C36_OnlySuppliedOverwritten ==
    [][(reply'.op = "UpdateAsset" /\ reply'.err = "") =>
         LET dto == reply'.dto
             old == rows[dto.ID]
             new == rows'[dto.ID] IN
         /\ new.UserID = (IF dto.UserID # Nil THEN dto.UserID ELSE old.UserID)
         /\ new.FileHash = (IF dto.FileHash # "" THEN dto.FileHash ELSE old.FileHash)
         /\ new.PublicURL = (IF dto.PublicURL # Nil THEN dto.PublicURL ELSE old.PublicURL)
         /\ new.ID = old.ID /\ new.StorageKey = old.StorageKey
         /\ new.Active = old.Active /\ new.Deleted = old.Deleted
         /\ reply'.page = <<new>>
         /\ \A i \in 1..Len(rows) : i # dto.ID => rows'[i] = rows[i]]_vars

\* ------------------------------------------- the avatar-updated event
\* C39: the handler publishes the avatar-updated event only when its own
\* UploadAsset call has returned success, at most once for the message it is
\* handling, and whenever an event has been published the row of the asset
\* it names and an object under that row's storage key exist.
C39_PublishedAfterUpload ==
    /\ [][published' # published =>
            /\ loop.pc = "publish"
            /\ \A k \in 1..Len(published) : published[k].offset # loop.offset
            /\ \E c \in CallIds :
                 /\ UploadDone(c) /\ calls[c].n = loop.call /\ calls[c].ret = "ok"
                 /\ Made(calls[c].trace, "repo.CreateAsset", TRUE)
                 /\ published' = Append(published, [offset |-> loop.offset, userID |-> calls[c].dto.UserID,
                                                    asset |-> calls[c].asset.ID])]_vars
    /\ [](\A k \in 1..Len(published) :
            /\ published[k].asset \in 1..Len(rows)
            /\ Visible(published[k].asset)
            /\ ObjectsWithKey(rows[published[k].asset].StorageKey) # {}
            /\ rows[published[k].asset].UserID = published[k].userID)

\* two messages were handled and committed, each with its own event, row and
\* object
C39_Witness ==
    /\ Len(published) = 2
    /\ published[1].asset # published[2].asset
    /\ published[1].offset < published[2].offset
    /\ committed = published[2].offset + 1
    /\ \A k \in 1..2 : outcome[published[k].offset] = "ok"
    /\ Len(rows) = 2

\* ------------------------------------------------- the metadata document
\* C40: in the metadata document of the row an UploadAsset call creates,
\* file_hash is the digest of the bytes the call uploaded and storage_key is
\* the key the call wrote them under, whatever the caller's metadata holds.
C40_SystemFieldsKept ==
    [][\A c \in CallIds :
         (calls[c].op = "UploadAsset" /\ calls[c].pc = "create" /\ calls'[c].pc = "cache")
         => LET document == rows'[Len(rows')].Metadata IN
            /\ Has(document, "file_hash")
            /\ Lookup(document, "file_hash") = Sha256(calls[c].dto.Data)
            /\ Has(document, "storage_key")
            /\ Lookup(document, "storage_key") = calls[c].key]_vars

====
